---- MODULE Spec2Model ----
(***************************************************************************)
(* uhidctl: control of USB HID power relays (src/uhidctl.c).                *)
(*                                                                         *)
(* The model follows main(): the getopt loop, hid_init, find_relays, the   *)
(* status dump (print_relay_status / get_port_state) and the OFF/ON/CYCLE  *)
(* passes (set_port_state).  C strings are sequences of one-character      *)
(* strings; a bit mask is a natural number.  The HID transport is the      *)
(* environment: a device is a record of what hidapi reports for it, the    *)
(* enumeration is drawn device by device as find_relays walks it, and a    *)
(* read or write after discovery may fail (at most MaxFaults times a run,  *)
(* at the ports of FaultPorts).  ports2bitmap and print_relay_status are   *)
(* also run by themselves (SpecParse, SpecTokens, SpecStatus).             *)
(***************************************************************************)
EXTENDS Integers, Sequences, FiniteSets, TLC

(* ------------------------------------------------------------------ *)
(* Program constants                                                  *)
(* ------------------------------------------------------------------ *)

MAX_RELAY_PORTS == 8

ALL_RELAY_PORTS == 255

POWER_KEEP == -1

POWER_OFF == 0

POWER_ON == 1

POWER_CYCLE == 2

MAX_RELAYS == 64

\* sizeof(buf) - 1 in ports2bitmap: char buf[8]
TokenBufLen == 7

\* sizeof(opt_relay), sizeof(opt_path)
OptBufSize == 16

\* sizeof(relays[0].serial)
SerialSize == 16

\* sizeof(relays[0].path)
PathSize == 256

\* sizeof(buf) in set_port_state: what a complete hid_write returns
ReportSize == 9

\* the number of characters wcsncmp compares in find_relays
PrefixCmpLen == 7

\* the shortest product string find_relays looks at, and the offset of the port count
PrefixLen == 8

\* opt_delay's default, in seconds
DefaultDelay == 2

(* ------------------------------------------------------------------ *)
(* Bounds of the model                                                *)
(* ------------------------------------------------------------------ *)

\* longest port list drawn over the full alphabet (SpecParse)
MaxLen == 4

\* longest port list drawn over the digits 0 and 1 (tokens longer than buf)
MaxLongLen == 9

\* most options on a command line
MaxOpts == 2

\* most devices in an enumeration drawn from DeviceKinds
MaxDevs == 2

\* most transport failures after discovery in one run
MaxFaults == 1

\* most tokens of a port list built from TokenKinds (SpecTokens)
MaxToks == 4

\* most ports of the relay print_relay_status is run on by itself, and the
\* number of mask bits drawn for it (SpecStatus)
MaxPorts == 4

(* ------------------------------------------------------------------ *)
(* Characters, C strings, bit masks                                   *)
(* ------------------------------------------------------------------ *)

DigitChars == <<"0", "1", "2", "3", "4", "5", "6", "7", "8", "9">>

IsDigit(c) == \E i \in 1..10 : DigitChars[i] = c

DigitVal(c) == (CHOOSE i \in 1..10 : DigitChars[i] = c) - 1

\* isspace() on the characters the model draws
IsSpace(c) == c = " "

UpperChars ==
    <<"A", "B", "C", "D", "E", "F", "G", "H", "I", "J", "K", "L", "M",
      "N", "O", "P", "Q", "R", "S", "T", "U", "V", "W", "X", "Y", "Z">>

LowerChars ==
    <<"a", "b", "c", "d", "e", "f", "g", "h", "i", "j", "k", "l", "m",
      "n", "o", "p", "q", "r", "s", "t", "u", "v", "w", "x", "y", "z">>

\* tolower(), as strcasecmp applies it
ToLower(c) ==
    IF \E i \in 1..Len(UpperChars) : UpperChars[i] = c
    THEN LowerChars[CHOOSE i \in 1..Len(UpperChars) : UpperChars[i] = c]
    ELSE c

Take(s, n) == IF n >= Len(s) THEN s ELSE SubSeq(s, 1, n)

Drop(s, n) == IF n >= Len(s) THEN <<>> ELSE SubSeq(s, n + 1, Len(s))

\* strchr: the index of the first c in s, 0 for NULL
strchr(s, c) ==
    IF \E i \in 1..Len(s) : s[i] = c
    THEN CHOOSE i \in 1..Len(s) : s[i] = c /\ \A j \in 1..(i - 1) : s[j] # c
    ELSE 0

\* strncpy(dst, src, n) into a zeroed or static buffer, read back as a C string
strncpy(src, n) == Take(src, n)

\* strcasecmp(a, b) = 0
StrCaseEq(a, b) ==
    /\ Len(a) = Len(b)
    /\ \A i \in 1..Len(a) : ToLower(a[i]) = ToLower(b[i])

RECURSIVE SkipSpaces(_)
SkipSpaces(s) ==
    IF s # <<>> /\ IsSpace(s[1]) THEN SkipSpaces(Tail(s)) ELSE s

RECURSIVE DigitsValue(_, _, _)
\* the value of the longest prefix of s made of digits below base, from acc
DigitsValue(s, base, acc) ==
    IF s # <<>> /\ IsDigit(s[1]) /\ DigitVal(s[1]) < base
    THEN DigitsValue(Tail(s), base, acc * base + DigitVal(s[1]))
    ELSE acc

\* strtol-style sign handling around a digit run in the given base
SignedValue(s, base) ==
    IF s # <<>> /\ s[1] = "-" THEN 0 - DigitsValue(Tail(s), base, 0)
    ELSE IF s # <<>> /\ s[1] = "+" THEN DigitsValue(Tail(s), base, 0)
    ELSE DigitsValue(s, base, 0)

\* atoi(): leading white space, an optional sign, then decimal digits
atoi(s) == SignedValue(SkipSpaces(s), 10)

\* wcstol(s, 0, 0): base 8 after a leading 0, base 10 otherwise
wcstol(s) ==
    LET t == SkipSpaces(s)
        u == IF t # <<>> /\ t[1] \in {"-", "+"} THEN Tail(t) ELSE t
        base == IF u # <<>> /\ u[1] = "0" THEN 8 ELSE 10
    IN  SignedValue(t, base)

RECURSIVE Pow2(_)
Pow2(n) == IF n <= 0 THEN 1 ELSE 2 * Pow2(n - 1)

\* (1 << (port-1)) & mask, for a mask below 2^MAX_RELAY_PORTS
Bit(mask, port) == (mask \div Pow2(port - 1)) % 2 = 1

\* OrBit with + in the place of |
OrBitAdd(mask, port) == mask + Pow2(port - 1)

\* mask | (1 << (port-1))
OrBit(mask, port) == IF Bit(mask, port) THEN mask ELSE mask + Pow2(port - 1)

RECURSIVE OrRange(_, _, _)
\* for (i=a; i<=b; i++) ports |= (1 << (i-1));
OrRange(mask, a, b) ==
    IF a > b THEN mask ELSE OrRange(OrBit(mask, a), a + 1, b)

(* ------------------------------------------------------------------ *)
(* ports2bitmap: one token of the port list                           *)
(* ------------------------------------------------------------------ *)

\* the C string at position (1-based index into portlist)
StrAt(pl, pos) == Drop(pl, pos - 1)

\* the comma strchr finds from position, as an index into StrAt, 0 for NULL
TokComma(pl, pos) == strchr(StrAt(pl, pos), ",")

\* buf after strncpy(buf, position, len)
TokBuf(pl, pos) ==
    LET comma == TokComma(pl, pos)
        len == IF comma > 0 /\ TokenBufLen > comma - 1 THEN comma - 1 ELSE TokenBufLen
    IN  strncpy(StrAt(pl, pos), len)

\* position after the token: comma + 1, or NULL (0)
TokNext(pl, pos) ==
    LET comma == TokComma(pl, pos)
    IN  IF comma > 0 THEN pos + comma ELSE 0

TokA(buf) == atoi(buf)

TokB(buf) ==
    LET dash == strchr(buf, "-")
    IN  IF dash > 0 THEN atoi(Drop(buf, dash)) ELSE TokA(buf)

\* the range check of ports2bitmap, on a and b
TokOutOfRange(a, b) ==
    a <= 0 \/ a > MAX_RELAY_PORTS \/ b <= 0 \/ b > MAX_RELAY_PORTS

(* ------------------------------------------------------------------ *)
(* The HID transport's devices and the command line                   *)
(* ------------------------------------------------------------------ *)

Path0 == <<"1", "-", "1">>

Path1 == <<"1", "-", "2">>

Path2 == <<"1", "-", "3">>

Path3 == <<"1", "-", "4">>

SerialA == <<"A", "B", "C", "D", "E">>

SerialB == <<"Q", "W", "E", "R", "T">>

ProductRelay(digits) == <<"U", "S", "B", "R", "e", "l", "a", "y">> \o digits

Device(product, path, serial, openable, report_ok) ==
    [ product_null |-> FALSE, product_string |-> product, path |-> path,
      serial |-> serial, openable |-> openable, report_ok |-> report_ok ]

\* what hid_enumerate may report: relays of 2 and 1 ports, a relay that cannot
\* be opened, one whose feature report fails, one advertising no port, one
\* advertising 16 ports, a device whose product string leaves "USBRelay" at
\* its 8th character, and devices that are no relays
DeviceKinds ==
    { Device(ProductRelay(<<"2">>), Path0, SerialA, TRUE, TRUE),
      Device(ProductRelay(<<"1">>), Path1, SerialB, TRUE, TRUE),
      Device(ProductRelay(<<"2">>), Path2, SerialB, FALSE, TRUE),
      Device(ProductRelay(<<"2">>), Path2, SerialB, TRUE, FALSE),
      Device(ProductRelay(<<"0">>), Path2, SerialB, TRUE, TRUE),
      Device(ProductRelay(<<"1", "6">>), Path2, SerialB, TRUE, TRUE),
      Device(<<"U", "S", "B", "R", "e", "l", "a", "x", "1">>, Path3, SerialB, TRUE, TRUE),
      Device(<<"K", "e", "y", "b", "o", "a", "r", "d">>, Path2, <<>>, TRUE, TRUE),
      Device(<<"U", "S", "B">>, Path2, <<>>, TRUE, TRUE),
      [ Device(<<>>, Path2, <<>>, TRUE, TRUE) EXCEPT !.product_null = TRUE ] }

Paths == { d.path : d \in DeviceKinds }

SeqsUpTo(S, n) == UNION { [1..m -> S] : m \in 0..n }

\* one relay more than the relays[] array holds
ManyDevices ==
    [ i \in 1..(MAX_RELAYS + 1) |->
        Device(ProductRelay(<<"1">>), Path1, SerialB, TRUE, TRUE) ]

Short(name, arg) == [ kind |-> "short", name |-> name, arg |-> arg ]

Long(name, arg) == [ kind |-> "long", name |-> name, arg |-> arg ]

\* what a command line of the model is made of
ArgTokens ==
    { Short("a", <<"o", "f", "f">>), Short("a", <<"O", "N">>),
      Short("a", <<"2">>), Short("a", <<"x">>),
      Short("p", <<"2">>), Short("p", <<"1", ",", "3">>),
      Short("p", <<"A", "l", "l">>), Short("p", <<"5", "-", "3">>),
      Short("p", <<"9">>), Short("p", <<>>),
      Short("l", <<"a", "b", "c", "d", "e">>),
      Long("path", Path1), Short("u", Path1),
      Short("d", <<"0", ".", "5">>),
      Short("h", <<>>), Short("v", <<>>),
      [ kind |-> "pos", name |-> "", arg |-> <<"x">> ] }

\* what follows the n-th device of the list hid_enumerate returned, as the
\* loop of find_relays comes to see it: the end of the list, or one more device
NextDevices(n) ==
    IF n < MaxDevs THEN {<<>>} \cup { <<d>> : d \in DeviceKinds } ELSE {<<>>}

\* the lists hid_enumerate may return, as far as find_relays sees them at
\* first: every list of up to MaxDevs devices, drawn one device at a time
\* as the loop follows cur_dev->next, and the list of MAX_RELAYS + 1 relays
Enumerations == NextDevices(0) \cup {ManyDevices}

\* the optstring of getopt_long: "a:d:p:l:hv"
ShortOpts == {"a", "d", "p", "l", "h", "v"}

\* long_options[]: name -> val
LongOpts ==
    [ n \in {"relay", "path", "ports", "action", "delay", "version", "help"} |->
        CASE n = "relay" -> "l"
          [] n = "path" -> "u"
          [] n = "ports" -> "p"
          [] n = "action" -> "a"
          [] n = "delay" -> "d"
          [] n = "version" -> "v"
          [] n = "help" -> "h" ]

\* what getopt_long returns for an option of the command line
getopt_long(tok) ==
    IF tok.kind = "short"
    THEN IF tok.name \in ShortOpts THEN tok.name ELSE "?"
    ELSE IF tok.name \in DOMAIN LongOpts THEN LongOpts[tok.name] ELSE "?"

\* GNU getopt permutes: options first, then the non-option arguments
IsOption(tok) == tok.kind # "pos"

\* (int)(atof(optarg) * 1000): the delay in milliseconds, of digits[.digits]
AtofMs(s) ==
    LET dot == strchr(s, ".")
        ip == IF dot > 0 THEN Take(s, dot - 1) ELSE s
        fp == IF dot > 0 THEN Take(Drop(s, dot) \o <<"0", "0", "0">>, 3) ELSE <<"0", "0", "0">>
    IN  DigitsValue(ip, 10, 0) * 1000 + DigitsValue(fp, 10, 0)

\* the values of -a that main() accepts
IsOff(optarg) == StrCaseEq(optarg, <<"o", "f", "f">>) \/ StrCaseEq(optarg, <<"0">>)

IsOn(optarg) == StrCaseEq(optarg, <<"o", "n">>) \/ StrCaseEq(optarg, <<"1">>)

IsCycle(optarg) ==
    StrCaseEq(optarg, <<"c", "y", "c", "l", "e">>) \/ StrCaseEq(optarg, <<"2">>)

(* ------------------------------------------------------------------ *)
(* State                                                              *)
(* ------------------------------------------------------------------ *)

VARIABLES
    pc,           \* where main() is
    optind,       \* the number of command-line arguments getopt_long has consumed
    opt_relay, opt_path, opt_ports, opt_action, opt_delay,
    portlist, position, ports,      \* ports2bitmap's argument and locals
    hid,          \* the hidapi library: "down", "up", "exited"
    devs, cur,    \* find_relays: the enumeration from cur_dev on, and how many
                  \* devices the loop has come to, cur_dev included
    perm_ok,
    relays,       \* relays[0 .. relay_count-1], as a sequence
    handles,      \* the open transport handles: <<path, opened by>>, oldest first
    hw_start,     \* hw when the run started
    hw,           \* the relays' hardware: path -> bit vector of the ports that are ON
    i, k, port,   \* main's loop variables (i is 1-based here)
    st_port, ret, \* print_relay_status: its port, and where it returns to
    rc,           \* main's rc
    faults,       \* transport failures so far, after discovery
    events,       \* what the run did, in order: writes, output, sleeps
    exit_status   \* <<>> while running, <<code>> once the process has ended

vars ==
    << pc, optind, opt_relay, opt_path, opt_ports, opt_action, opt_delay,
       portlist, position, ports, hid, devs, cur, perm_ok, relays, handles,
       hw, hw_start, i, k, port, st_port, ret, rc, faults, events, exit_status >>

optVars == << opt_relay, opt_path, opt_ports, opt_action, opt_delay >>

parseVars == << portlist, position, ports >>

findVars == << devs, cur, perm_ok, relays >>

loopVars == << i, k, port, st_port, ret, rc >>

\* the port bits a relay may show when the run starts: port 1 ON, or port 2 ON
HwStartBits == {1, 2}

\* the ports at which the transport may fail after discovery
FaultPorts == {1, 2}

\* the transport may fail now, on a call for port p
MayFail(p) == faults < MaxFaults /\ p \in FaultPorts

\* the statics of uhidctl.c as main() finds them, before any input
Statics ==
    /\ opt_relay = <<>>
    /\ opt_path = <<>>
    /\ opt_ports = ALL_RELAY_PORTS
    /\ opt_action = POWER_KEEP
    /\ opt_delay = DefaultDelay * 1000
    /\ hid = "down"
    /\ cur = 0 /\ perm_ok = TRUE /\ relays = <<>>
    /\ handles = <<>>
    /\ \E b \in HwStartBits : hw = [ p \in Paths |-> b ]
    /\ hw_start = hw
    /\ i = 0 /\ k = 0 /\ port = 0 /\ st_port = 0 /\ ret = "none" /\ rc = 0
    /\ faults = 0
    /\ events = <<>>
    /\ exit_status = <<>>

Init ==
    /\ Statics
    /\ pc = "getopt"
    /\ portlist = <<>> /\ position = 0 /\ ports = 0
    /\ optind = 0
    /\ devs = <<>>

exit(code) ==
    /\ pc' = "exit"
    /\ exit_status' = <<code>>

(* ------------------------------------------------------------------ *)
(* ports2bitmap                                                       *)
(* ------------------------------------------------------------------ *)

\* a > b: "first port must be less than last", exit(1)
ParseBadOrder ==
    /\ pc = "ports2bitmap" /\ position # 0
    /\ LET buf == TokBuf(portlist, position)
       IN  TokA(buf) > TokB(buf)
    /\ exit(1)
    /\ events' = Append(events, [ev |-> "diag", msg |-> "Bad port spec"])
    /\ UNCHANGED << optind, optVars, parseVars, hid, findVars, handles, hw, hw_start,
                    loopVars, faults >>

\* a port outside 1..MAX_RELAY_PORTS: exit(1)
ParseBadRange ==
    /\ pc = "ports2bitmap" /\ position # 0
    /\ LET buf == TokBuf(portlist, position)
       IN  /\ ~(TokA(buf) > TokB(buf))
           /\ TokOutOfRange(TokA(buf), TokB(buf))
    /\ exit(1)
    /\ events' = Append(events, [ev |-> "diag", msg |-> "Bad port spec"])
    /\ UNCHANGED << optind, optVars, parseVars, hid, findVars, handles, hw, hw_start,
                    loopVars, faults >>

\* one iteration of while (position) that accepts its token
ParseToken ==
    /\ pc = "ports2bitmap" /\ position # 0
    /\ LET buf == TokBuf(portlist, position)
           a == TokA(buf)
           b == TokB(buf)
       IN  /\ ~(a > b)
           /\ ~TokOutOfRange(a, b)
           /\ ports' = OrRange(ports, a, b)
    /\ position' = TokNext(portlist, position)
    /\ UNCHANGED << pc, optind, optVars, portlist, hid, findVars, handles, hw,
                    hw_start, loopVars,
                    faults, events, exit_status >>

\* return ports; the caller stores it: opt_ports = ports2bitmap(optarg)
ParseReturn ==
    /\ pc = "ports2bitmap" /\ position = 0
    /\ opt_ports' = ports
    /\ pc' = "getopt"
    /\ UNCHANGED << optind, opt_relay, opt_path, opt_action, opt_delay, parseVars, hid,
                    findVars, handles, hw, hw_start, loopVars, faults, events, exit_status >>

NextParse == ParseBadOrder \/ ParseBadRange \/ ParseToken \/ ParseReturn

\* the port lists ports2bitmap is run on by itself
ParseAlphabet == {"1", "2", "3", "9", "-", ",", " ", "x"}

ParseInputs ==
    { s \in SeqsUpTo(ParseAlphabet, MaxLen) : s # <<>> }
        \cup { s \in SeqsUpTo({"0", "1"}, MaxLongLen) : Len(s) > TokenBufLen }

\* ports2bitmap called on a port list, as main's case 'p' calls it
InitParse ==
    /\ Statics
    /\ optind = 0 /\ devs = <<>>
    /\ pc = "ports2bitmap"
    /\ portlist \in ParseInputs
    /\ position = 1 /\ ports = 0

SpecParse == InitParse /\ [][NextParse]_vars

\* the tokens the longer port lists are built from: ports, ranges that
\* overlap, a range in the wrong order and a port the parser rejects
TokenKinds ==
    { <<"1">>, <<"3">>, <<"4">>, <<"5">>, <<"3", "-", "5">>, <<"3", "-", "4">>,
      <<"4", "-", "5">>, <<"5", "-", "3">>, <<"9">> }

RECURSIVE Join(_)
\* the port list of the tokens, with a comma between two of them
Join(toks) ==
    IF Len(toks) = 0 THEN <<>>
    ELSE IF Len(toks) = 1 THEN toks[1]
    ELSE toks[1] \o <<",">> \o Join(Tail(toks))

TokenLists == { Join(toks) : toks \in SeqsUpTo(TokenKinds, MaxToks) } \ {<<>>}

\* ports2bitmap called on a list of up to MaxToks tokens
InitTokens ==
    /\ Statics
    /\ optind = 0 /\ devs = <<>>
    /\ pc = "ports2bitmap"
    /\ portlist \in TokenLists
    /\ position = 1 /\ ports = 0

SpecTokens == InitTokens /\ [][NextParse]_vars

(* ------------------------------------------------------------------ *)
(* main: the getopt_long loop                                         *)
(* ------------------------------------------------------------------ *)

\* the arguments the command line may give to an option getopt_long returns as c
OptArgs(c) == { tok.arg : tok \in { t \in ArgTokens : IsOption(t) /\ getopt_long(t) = c } }

\* getopt_long hands out the next option of the command line (GNU getopt hands
\* out the options first, wherever the non-option arguments stand)
Getopt ==
    /\ pc = "getopt"
    /\ optind < MaxOpts
    /\ optind' = optind + 1

Diag(msg) == events' = Append(events, [ev |-> "diag", msg |-> msg])

CaseL ==
    /\ \E optarg \in OptArgs("l") : Getopt /\ opt_relay' = strncpy(optarg, OptBufSize)
    /\ UNCHANGED << pc, opt_path, opt_ports, opt_action, opt_delay, parseVars, hid,
                    findVars, handles, hw, hw_start, loopVars, faults, events, exit_status >>

CaseU ==
    /\ \E optarg \in OptArgs("u") : Getopt /\ opt_path' = strncpy(optarg, OptBufSize)
    /\ UNCHANGED << pc, opt_relay, opt_ports, opt_action, opt_delay, parseVars, hid,
                    findVars, handles, hw, hw_start, loopVars, faults, events, exit_status >>

\* -p all, or an empty port list: the default stays
CasePAll ==
    /\ \E optarg \in OptArgs("p") :
          /\ Getopt
          /\ StrCaseEq(optarg, <<"a", "l", "l">>) \/ Len(optarg) = 0
    /\ UNCHANGED << pc, optVars, parseVars, hid, findVars, handles, hw, hw_start, loopVars,
                    faults, events, exit_status >>

\* opt_ports = ports2bitmap(optarg): the call
CasePList ==
    /\ \E optarg \in OptArgs("p") :
          /\ Getopt
          /\ ~StrCaseEq(optarg, <<"a", "l", "l">>) /\ Len(optarg) # 0
          /\ portlist' = optarg
    /\ position' = 1
    /\ ports' = 0
    /\ pc' = "ports2bitmap"
    /\ UNCHANGED << optVars, hid, findVars, handles, hw, hw_start, loopVars, faults, events,
                    exit_status >>

CaseA ==
    /\ \E optarg \in OptArgs("a") :
          /\ Getopt
          /\ \/ IsOff(optarg) /\ opt_action' = POWER_OFF
             \/ ~IsOff(optarg) /\ IsOn(optarg) /\ opt_action' = POWER_ON
             \/ ~IsOff(optarg) /\ ~IsOn(optarg) /\ IsCycle(optarg)
                  /\ opt_action' = POWER_CYCLE
    /\ UNCHANGED << pc, opt_relay, opt_path, opt_ports, opt_delay, parseVars, hid,
                    findVars, handles, hw, hw_start, loopVars, faults, events, exit_status >>

\* "Invalid power action", exit(1)
CaseABad ==
    /\ \E optarg \in OptArgs("a") :
          /\ Getopt
          /\ ~IsOff(optarg) /\ ~IsOn(optarg) /\ ~IsCycle(optarg)
    /\ Diag("Invalid power action")
    /\ exit(1)
    /\ UNCHANGED << optVars, parseVars, hid, findVars, handles, hw, hw_start, loopVars,
                    faults >>

CaseD ==
    /\ \E optarg \in OptArgs("d") : Getopt /\ opt_delay' = AtofMs(optarg)
    /\ UNCHANGED << pc, opt_relay, opt_path, opt_ports, opt_action, parseVars, hid,
                    findVars, handles, hw, hw_start, loopVars, faults, events, exit_status >>

CaseV ==
    /\ \E optarg \in OptArgs("v") : Getopt
    /\ events' = Append(events, [ev |-> "version"])
    /\ exit(0)
    /\ UNCHANGED << optVars, parseVars, hid, findVars, handles, hw, hw_start, loopVars,
                    faults >>

CaseH ==
    /\ \E optarg \in OptArgs("h") : Getopt
    /\ events' = Append(events, [ev |-> "usage"])
    /\ exit(1)
    /\ UNCHANGED << optVars, parseVars, hid, findVars, handles, hw, hw_start, loopVars,
                    faults >>

\* case '?': an option getopt_long does not know; getopt_long has printed
\* "invalid option" with the option's name, main() adds its hint
CaseUnknown ==
    /\ \E tok \in { t \in ArgTokens : IsOption(t) /\ getopt_long(t) = "?" } :
          /\ Getopt
          /\ events' = events \o
                << [ev |-> "diag", msg |-> "invalid option", opt |-> tok.name],
                   [ev |-> "diag", msg |-> "Run with -h to get usage info"] >>
    /\ exit(1)
    /\ UNCHANGED << optVars, parseVars, hid, findVars, handles, hw, hw_start, loopVars,
                    faults >>

\* c == -1 with optind < argc: a non-option argument is left
ExtraArgs ==
    /\ pc = "getopt"
    /\ optind < MaxOpts
    /\ \E tok \in ArgTokens : ~IsOption(tok)
    /\ Diag("Invalid command line syntax")
    /\ exit(1)
    /\ UNCHANGED << optind, optVars, parseVars, hid, findVars, handles, hw, hw_start,
                    loopVars, faults >>

\* c == -1, no argument left: on to hid_init()
GetoptDone ==
    /\ pc = "getopt"
    /\ pc' = "hid_init"
    /\ UNCHANGED << optind, optVars, parseVars, hid, findVars, handles, hw, hw_start,
                    loopVars,
                    faults, events, exit_status >>

(* ------------------------------------------------------------------ *)
(* main: hid_init and find_relays                                     *)
(* ------------------------------------------------------------------ *)

\* hid_init() succeeds; find_relays() starts: relay_count = 0, cur_dev = devs
HidInit ==
    /\ pc = "hid_init"
    /\ hid' = "up"
    /\ relays' = <<>>
    /\ devs' \in Enumerations
    /\ cur' = 1
    /\ pc' = "find_relays"
    /\ UNCHANGED << optind, optVars, parseVars, perm_ok, handles, hw, hw_start, loopVars,
                    faults, events, exit_status >>

HidInitFail ==
    /\ pc = "hid_init"
    /\ Diag("Error initializing hidapi")
    /\ exit(1)
    /\ UNCHANGED << optind, optVars, parseVars, hid, findVars, handles, hw, hw_start,
                    loopVars, faults >>

\* the three product-string tests of find_relays
IsCandidate(dev) ==
    /\ ~dev.product_null
    /\ ~(Len(dev.product_string) < PrefixLen)
    /\ Take(dev.product_string, PrefixCmpLen) = Take(ProductRelay(<<>>), PrefixCmpLen)

\* strlen(opt_path)>0 && strcasecmp(cur_dev->path, opt_path)
PathFiltered(dev) == Len(opt_path) > 0 /\ ~StrCaseEq(dev.path, opt_path)

\* strlen(opt_relay)>0 && strcasecmp(serial, opt_relay)
SerialFiltered(dev) == Len(opt_relay) > 0 /\ ~StrCaseEq(dev.serial, opt_relay)

\* nports = wcstol(cur_dev->product_string+8, 0, 0)
NPorts(dev) == wcstol(Drop(dev.product_string, PrefixLen))

InLoop == pc = "find_relays" /\ devs # <<>>

cur_dev == devs[1]

Opened == pc = "find_opened"

\* continue: cur_dev = cur_dev->next, whatever the handle's state
Continue ==
    /\ devs' \in IF Len(devs) > 1 THEN {Tail(devs)} ELSE NextDevices(cur)
    /\ cur' = cur + 1
    /\ pc' = "find_relays"

hid_open(path, by) == handles' = Append(handles, [path |-> path, by |-> by])

\* hid_close(handle) of the handle opened last
hid_close == handles' = SubSeq(handles, 1, Len(handles) - 1)

FindSkipProduct ==
    /\ InLoop
    /\ ~IsCandidate(cur_dev)
    /\ Continue
    /\ UNCHANGED << optind, optVars, parseVars, hid, perm_ok, relays, handles,
                    hw, hw_start,
                    loopVars, faults, events, exit_status >>

FindSkipPath ==
    /\ InLoop
    /\ IsCandidate(cur_dev)
    /\ PathFiltered(cur_dev)
    /\ Continue
    /\ UNCHANGED << optind, optVars, parseVars, hid, perm_ok, relays, handles,
                    hw, hw_start,
                    loopVars, faults, events, exit_status >>

\* hid_open_path returns NULL
FindOpenFail ==
    /\ InLoop
    /\ IsCandidate(cur_dev) /\ ~PathFiltered(cur_dev)
    /\ ~cur_dev.openable
    /\ Diag("Unable to open relay")
    /\ perm_ok' = FALSE
    /\ Continue
    /\ UNCHANGED << optind, optVars, parseVars, hid, relays, handles, hw,
                    hw_start, loopVars,
                    faults, exit_status >>

FindOpen ==
    /\ InLoop
    /\ IsCandidate(cur_dev) /\ ~PathFiltered(cur_dev)
    /\ cur_dev.openable
    /\ hid_open(cur_dev.path, "find_relays")
    /\ pc' = "find_opened"
    /\ UNCHANGED << optind, optVars, parseVars, hid, findVars, hw, hw_start, loopVars, faults,
                    events, exit_status >>

\* hid_get_feature_report returns -1
FindReportFail ==
    /\ Opened
    /\ ~cur_dev.report_ok
    /\ Diag("Can't get serial number")
    /\ Continue
    /\ UNCHANGED << optind, optVars, parseVars, hid, perm_ok, relays, handles,
                    hw, hw_start,
                    loopVars, faults, exit_status >>

FindSerialMismatch ==
    /\ Opened
    /\ cur_dev.report_ok
    /\ SerialFiltered(cur_dev)
    /\ Continue
    /\ UNCHANGED << optind, optVars, parseVars, hid, perm_ok, relays, handles,
                    hw, hw_start,
                    loopVars, faults, events, exit_status >>

FindBadNports ==
    /\ Opened
    /\ cur_dev.report_ok /\ ~SerialFiltered(cur_dev)
    /\ NPorts(cur_dev) <= 0
    /\ Continue
    /\ UNCHANGED << optind, optVars, parseVars, hid, perm_ok, relays, handles,
                    hw, hw_start,
                    loopVars, faults, events, exit_status >>

\* relays[relay_count++] = the device; hid_close(handle)
FindAppend ==
    /\ Opened
    /\ cur_dev.report_ok /\ ~SerialFiltered(cur_dev)
    /\ ~(NPorts(cur_dev) <= 0)
    /\ Len(relays) < MAX_RELAYS
    /\ relays' = Append(relays, [ serial |-> strncpy(cur_dev.serial, SerialSize),
                                  nports |-> NPorts(cur_dev),
                                  path |-> strncpy(cur_dev.path, PathSize) ])
    /\ hid_close
    /\ Continue
    /\ UNCHANGED << optind, optVars, parseVars, hid, perm_ok, hw, hw_start, loopVars, faults,
                    events, exit_status >>

\* FindTooMany without the error: the device is dropped and the loop goes on
FindTooManyDrops ==
    /\ Opened
    /\ cur_dev.report_ok /\ ~SerialFiltered(cur_dev)
    /\ ~(NPorts(cur_dev) <= 0)
    /\ ~(Len(relays) < MAX_RELAYS)
    /\ hid_close
    /\ Continue
    /\ UNCHANGED << optind, optVars, parseVars, hid, perm_ok, relays, hw, hw_start,
                    loopVars, faults, events, exit_status >>

\* "Too many relays!", exit(1)
FindTooMany ==
    /\ Opened
    /\ cur_dev.report_ok /\ ~SerialFiltered(cur_dev)
    /\ ~(NPorts(cur_dev) <= 0)
    /\ ~(Len(relays) < MAX_RELAYS)
    /\ Diag("Too many relays")
    /\ exit(1)
    /\ UNCHANGED << optind, optVars, parseVars, hid, findVars, handles, hw, hw_start,
                    loopVars, faults >>

\* the loop ends: hid_free_enumeration, the permission hint, return relay_count
FindReturn ==
    /\ pc = "find_relays" /\ devs = <<>>
    /\ events' = IF perm_ok THEN events
                 ELSE Append(events, [ev |-> "diag", msg |-> "permission problems"])
    /\ devs' = <<>>
    /\ cur' = 0
    /\ pc' = "found"
    /\ UNCHANGED << optind, optVars, parseVars, hid, perm_ok, relays, handles, hw, hw_start,
                    loopVars, faults, exit_status >>

(* ------------------------------------------------------------------ *)
(* get_port_state, set_port_state, print_relay_status                 *)
(* ------------------------------------------------------------------ *)

\* port < 1 || port > info->nports
PortOutOfRange(info, p) == p < 1 \/ p > info.nports

\* state ? "ON" : "OFF"
Label(state) == IF state # 0 THEN "ON" ELSE "OFF"

\* (buf[7] & (1 << (port - 1))) ? 1 : 0, buf[7] being the device's port bits
PortBit(info, p) == IF Bit(hw[info.path], p) THEN 1 ELSE 0

\* the device after a write naming port p: 0xFF switches it on, 0xFD off
Switched(bits, p, state) ==
    IF state # 0 THEN OrBit(bits, p)
    ELSE IF Bit(bits, p) THEN bits - Pow2(p - 1) ELSE bits

\* StatusSkips with the mask test lost: every port is shown
StatusSkipsNever(portmask, p) == FALSE

\* portmask > 0 && (portmask & (1 << (port-1))) == 0: the port is not shown
StatusSkips(portmask, p) == portmask > 0 /\ ~Bit(portmask, p)

\* PassSelects with the mask test lost: every port of the relay is written
PassSelectsAll(mask, p) == TRUE

\* (1 << (port-1)) & opt_ports: the pass writes the port
PassSelects(mask, p) == Bit(mask, p)

\* PassLast with the loop running to MAX_RELAY_PORTS instead of nports
PassLastMax(info) == MAX_RELAY_PORTS

\* the last port the pass loop of main() looks at
PassLast(info) == info.nports

RECURSIVE NextShown(_, _, _)
\* the next port, from p, that print_relay_status queries; nports + 1 when none
NextShown(info, portmask, p) ==
    IF p > info.nports THEN p
    ELSE IF StatusSkips(portmask, p) THEN NextShown(info, portmask, p + 1)
    ELSE p

RECURSIVE NextWritten(_, _, _)
\* the next port, from p, that the pass hands to set_port_state
NextWritten(info, mask, p) ==
    IF p > PassLast(info) THEN p
    ELSE IF ~PassSelects(mask, p) THEN NextWritten(info, mask, p + 1)
    ELSE p

\* the relay print_relay_status was called for
StatusInfo == IF ret = "keep" THEN relays[i] ELSE relays[1]

Line(p, state) == [ev |-> "line", port |-> p, state |-> state, label |-> Label(state)]

\* print_relay_status is entered: the header line, port = 1
StatusEnter(info, from) ==
    /\ events' = Append(events, [ev |-> "header", path |-> info.path])
    /\ st_port' = 1
    /\ ret' = from
    /\ pc' = "status"

\* get_port_state fails before it reads: the port is out of range, or
\* hid_open_path returns NULL; the line is printed with state -1
GetOpenFail ==
    /\ pc = "status"
    /\ LET p == NextShown(StatusInfo, opt_ports, st_port)
       IN  /\ p <= StatusInfo.nports
           /\ \/ PortOutOfRange(StatusInfo, p) /\ faults' = faults
              \/ ~PortOutOfRange(StatusInfo, p) /\ MayFail(p) /\ faults' = faults + 1
           /\ events' = Append(events, Line(p, -1))
           /\ st_port' = p + 1
    /\ UNCHANGED << pc, optind, optVars, parseVars, hid, findVars, handles, hw,
                    hw_start, i, k, port,
                    ret, rc, exit_status >>

\* get_port_state opens the path
GetOpen ==
    /\ pc = "status"
    /\ LET p == NextShown(StatusInfo, opt_ports, st_port)
       IN  /\ p <= StatusInfo.nports
           /\ ~PortOutOfRange(StatusInfo, p)
           /\ st_port' = p
    /\ hid_open(StatusInfo.path, "get_port_state")
    /\ pc' = "status_read"
    /\ UNCHANGED << optind, optVars, parseVars, hid, findVars, hw, hw_start, i, k,
                    port, ret, rc,
                    faults, events, exit_status >>

\* the feature report is read, the handle closed, the line printed
GetRead ==
    /\ pc = "status_read"
    /\ hid_close
    /\ events' = Append(events, Line(st_port, PortBit(StatusInfo, st_port)))
    /\ st_port' = st_port + 1
    /\ pc' = "status"
    /\ UNCHANGED << optind, optVars, parseVars, hid, findVars, hw, hw_start, i, k,
                    port, ret, rc,
                    faults, exit_status >>

\* hid_get_feature_report returns a negative rc: the handle is closed, state is -1
GetReadFail ==
    /\ pc = "status_read"
    /\ MayFail(st_port)
    /\ faults' = faults + 1
    /\ hid_close
    /\ events' = Append(events, Line(st_port, -1))
    /\ st_port' = st_port + 1
    /\ pc' = "status"
    /\ UNCHANGED << optind, optVars, parseVars, hid, findVars, hw, hw_start, i, k,
                    port, ret, rc,
                    exit_status >>

\* print_relay_status returns to the KEEP loop or to the pass
StatusReturn ==
    /\ pc = "status"
    /\ NextShown(StatusInfo, opt_ports, st_port) > StatusInfo.nports
    /\ \/ ret = "keep" /\ i' = i + 1 /\ pc' = "keep"
       \/ ret = "pass" /\ i' = i /\ pc' = "pass_end"
    /\ UNCHANGED << optind, optVars, parseVars, hid, findVars, handles, hw, hw_start,
                    k, port,
                    st_port, ret, rc, faults, events, exit_status >>

\* print_relay_status(&relays[0], opt_ports) called by itself
StatusCall ==
    /\ pc = "status_call"
    /\ StatusEnter(relays[1], "pass")
    /\ UNCHANGED << optind, optVars, parseVars, hid, findVars, handles, hw, hw_start,
                    i, k, port, rc, faults, exit_status >>

\* the relays and port masks print_relay_status is run on by itself: a relay
\* of 1..MaxPorts ports, a mask of MaxPorts bits, 0 included
InitStatus ==
    /\ pc = "status_call"
    /\ optind = 0
    /\ opt_relay = <<>> /\ opt_path = <<>>
    /\ opt_action = POWER_ON
    /\ opt_delay = DefaultDelay * 1000
    /\ opt_ports \in 0..(Pow2(MaxPorts) - 1)
    /\ portlist = <<>> /\ position = 0 /\ ports = 0
    /\ hid = "up"
    /\ devs = <<>> /\ cur = 0 /\ perm_ok = TRUE
    /\ \E n \in 1..MaxPorts :
          relays = << [ serial |-> SerialA, nports |-> n, path |-> Path0 ] >>
    /\ handles = <<>>
    /\ \E b \in HwStartBits : hw = [ p \in Paths |-> b ]
    /\ hw_start = hw
    /\ i = 0 /\ k = 1 /\ port = 0 /\ st_port = 0 /\ ret = "none" /\ rc = 0
    /\ faults = 0
    /\ events = <<>>
    /\ exit_status = <<>>

NextStatus ==
    StatusCall \/ GetOpenFail \/ GetOpen \/ GetRead \/ GetReadFail \/ StatusReturn

SpecStatus == InitStatus /\ [][NextStatus]_vars

(* ------------------------------------------------------------------ *)
(* main: after find_relays                                            *)
(* ------------------------------------------------------------------ *)

relay_count == Len(relays)

\* rc <= 0: "No compatible relays detected!", rc = 1, goto cleanup
MainNoRelays ==
    /\ pc = "found"
    /\ relay_count <= 0
    /\ Diag("No compatible relays detected")
    /\ rc' = 1
    /\ pc' = "cleanup"
    /\ UNCHANGED << optind, optVars, parseVars, hid, findVars, handles, hw, hw_start,
                    i, k, port,
                    st_port, ret, faults, exit_status >>

\* opt_action == POWER_KEEP: the status loop over all relays starts
MainKeep ==
    /\ pc = "found"
    /\ ~(relay_count <= 0)
    /\ opt_action = POWER_KEEP
    /\ i' = 1
    /\ pc' = "keep"
    /\ UNCHANGED << optind, optVars, parseVars, hid, findVars, handles, hw, hw_start,
                    k, port,
                    st_port, ret, rc, faults, events, exit_status >>

KeepStatus ==
    /\ pc = "keep"
    /\ i <= relay_count
    /\ StatusEnter(relays[i], "keep")
    /\ UNCHANGED << optind, optVars, parseVars, hid, findVars, handles, hw, hw_start,
                    i, k, port,
                    rc, faults, exit_status >>

\* KeepDone with the loop left after the first relay
KeepDoneEarly ==
    /\ pc = "keep"
    /\ i > 1
    /\ rc' = 0
    /\ pc' = "cleanup"
    /\ UNCHANGED << optind, optVars, parseVars, hid, findVars, handles, hw, hw_start,
                    i, k, port,
                    st_port, ret, faults, events, exit_status >>

KeepDone ==
    /\ pc = "keep"
    /\ ~(i <= relay_count)
    /\ rc' = 0
    /\ pc' = "cleanup"
    /\ UNCHANGED << optind, optVars, parseVars, hid, findVars, handles, hw, hw_start,
                    i, k, port,
                    st_port, ret, faults, events, exit_status >>

\* Ambiguous off by one
AmbiguousAboveTwo == relay_count > 2

\* relay_count > 1 with an action
Ambiguous == relay_count > 1

RECURSIVE SerialEvents(_, _)
\* for (i = 0; i < relay_count; i++) fprintf(stderr, "%s\n", relays[i].serial)
SerialEvents(rs, n) ==
    IF n > Len(rs) THEN <<>>
    ELSE <<[ev |-> "serial", serial |-> rs[n].serial]>> \o SerialEvents(rs, n + 1)

\* "More than 1 relay found", the serials, rc = 1
MainAmbiguous ==
    /\ pc = "found"
    /\ ~(relay_count <= 0) /\ opt_action # POWER_KEEP
    /\ Ambiguous
    /\ events' = Append(events, [ev |-> "diag", msg |-> "More than 1 relay found"])
                    \o SerialEvents(relays, 1)
    /\ rc' = 1
    /\ pc' = "cleanup"
    /\ UNCHANGED << optind, optVars, parseVars, hid, findVars, handles, hw, hw_start,
                    i, k, port,
                    st_port, ret, faults, exit_status >>

\* the else branch: for (k=0; k<2; k++) starts
MainAction ==
    /\ pc = "found"
    /\ ~(relay_count <= 0) /\ opt_action # POWER_KEEP
    /\ ~Ambiguous
    /\ k' = 0
    /\ pc' = "pass_k"
    /\ UNCHANGED << optind, optVars, parseVars, hid, findVars, handles, hw, hw_start,
                    i, port,
                    st_port, ret, rc, faults, events, exit_status >>

\* the two continue statements at the top of the k loop
PassSkipped(kk, action) ==
    \/ kk = 0 /\ action = POWER_ON
    \/ kk = 1 /\ action = POWER_OFF

PassSkip ==
    /\ pc = "pass_k"
    /\ k < 2
    /\ PassSkipped(k, opt_action)
    /\ k' = k + 1
    /\ UNCHANGED << pc, optind, optVars, parseVars, hid, findVars, handles, hw,
                    hw_start, i, port,
                    st_port, ret, rc, faults, events, exit_status >>

\* state = k; port = 1
PassBegin ==
    /\ pc = "pass_k"
    /\ k < 2
    /\ ~PassSkipped(k, opt_action)
    /\ port' = 1
    /\ pc' = "pass"
    /\ UNCHANGED << optind, optVars, parseVars, hid, findVars, handles, hw, hw_start, i, k,
                    st_port, ret, rc, faults, events, exit_status >>

\* the k loop is over: rc = 0
PassesDone ==
    /\ pc = "pass_k"
    /\ ~(k < 2)
    /\ rc' = 0
    /\ pc' = "cleanup"
    /\ UNCHANGED << optind, optVars, parseVars, hid, findVars, handles, hw, hw_start,
                    i, k, port,
                    st_port, ret, faults, events, exit_status >>

SetEvent(p, state, result, wrote) ==
    [ev |-> "set", port |-> p, state |-> state, rc |-> result, wrote |-> wrote]

\* SetFailed with the return code ignored
SetFailedIgnored(result) == FALSE

\* rc < 0 after set_port_state
SetFailed(result) == result < 0

\* main() after rc = set_port_state(&relays[0], p, state): "Cannot set new
\* port state!" and exit(1) when rc < 0, port++ otherwise
AfterSet(p, result, wrote) ==
    IF SetFailed(result)
    THEN /\ events' = Append(Append(events, SetEvent(p, k, result, wrote)),
                             [ev |-> "diag", msg |-> "Cannot set new port state"])
         /\ exit(1)
         /\ port' = p
    ELSE /\ events' = Append(events, SetEvent(p, k, result, wrote))
         /\ port' = p + 1
         /\ pc' = "pass"
         /\ UNCHANGED exit_status

\* set_port_state returns -1 before it writes: the port is out of range, or
\* hid_open_path returns NULL
SetOpenFail ==
    /\ pc = "pass"
    /\ LET p == NextWritten(relays[1], opt_ports, port)
       IN  /\ p <= PassLast(relays[1])
           /\ \/ PortOutOfRange(relays[1], p) /\ faults' = faults
              \/ ~PortOutOfRange(relays[1], p) /\ MayFail(p)
                   /\ faults' = faults + 1
           /\ AfterSet(p, -1, FALSE)
    /\ UNCHANGED << optind, optVars, parseVars, hid, findVars, handles, hw, hw_start, i, k,
                    st_port, ret, rc >>

\* set_port_state opens the path
SetOpen ==
    /\ pc = "pass"
    /\ LET p == NextWritten(relays[1], opt_ports, port)
       IN  /\ p <= PassLast(relays[1])
           /\ ~PortOutOfRange(relays[1], p)
           /\ port' = p
    /\ hid_open(relays[1].path, "set_port_state")
    /\ pc' = "pass_write"
    /\ UNCHANGED << optind, optVars, parseVars, hid, findVars, hw, hw_start, i, k, st_port,
                    ret, rc, faults, events, exit_status >>

\* hid_write returns the buffer's size and the device switches the port;
\* hid_close
SetWrite ==
    /\ pc = "pass_write"
    /\ hw' = [hw EXCEPT ![relays[1].path] = Switched(@, port, k)]
    /\ hid_close
    /\ AfterSet(port, ReportSize, TRUE)
    /\ UNCHANGED << optind, optVars, parseVars, hid, findVars, hw_start, i, k, st_port,
                    ret, rc, faults >>

\* hid_write returns -1; hid_close
SetWriteFail ==
    /\ pc = "pass_write"
    /\ MayFail(port)
    /\ faults' = faults + 1
    /\ hid_close
    /\ AfterSet(port, -1, TRUE)
    /\ UNCHANGED << optind, optVars, parseVars, hid, findVars, hw, hw_start, i, k,
                    st_port, ret, rc >>

\* the port loop is over: print_relay_status(&relays[0], opt_ports)
PassStatus ==
    /\ pc = "pass"
    /\ NextWritten(relays[1], opt_ports, port) > PassLast(relays[1])
    /\ port' = NextWritten(relays[1], opt_ports, port)
    /\ StatusEnter(relays[1], "pass")
    /\ UNCHANGED << optind, optVars, parseVars, hid, findVars, handles, hw, hw_start,
                    i, k, rc,
                    faults, exit_status >>

\* SleepsAfter with the sleep after the ON pass
SleepsAfterOn(kk, action) == kk = 1 /\ action = POWER_CYCLE

\* k==0 && opt_action == POWER_CYCLE
SleepsAfter(kk, action) == kk = 0 /\ action = POWER_CYCLE

\* sleep_ms(opt_delay * 1000), then k++
PassSleep ==
    /\ pc = "pass_end"
    /\ SleepsAfter(k, opt_action)
    /\ events' = Append(events, [ev |-> "sleep", ms |-> opt_delay])
    /\ k' = k + 1
    /\ pc' = "pass_k"
    /\ UNCHANGED << optind, optVars, parseVars, hid, findVars, handles, hw, hw_start,
                    i, port,
                    st_port, ret, rc, faults, exit_status >>

\* no sleep: k++
PassNext ==
    /\ pc = "pass_end"
    /\ ~SleepsAfter(k, opt_action)
    /\ k' = k + 1
    /\ pc' = "pass_k"
    /\ UNCHANGED << optind, optVars, parseVars, hid, findVars, handles, hw, hw_start,
                    i, port,
                    st_port, ret, rc, faults, events, exit_status >>

\* Cleanup with the return code lost: return 0
CleanupZero ==
    /\ pc = "cleanup"
    /\ hid' = "exited"
    /\ exit(0)
    /\ UNCHANGED << optind, optVars, parseVars, findVars, handles, hw, hw_start,
                    loopVars, faults,
                    events >>

\* cleanup: hid_exit(); return rc;
Cleanup ==
    /\ pc = "cleanup"
    /\ hid' = "exited"
    /\ exit(rc)
    /\ UNCHANGED << optind, optVars, parseVars, findVars, handles, hw, hw_start,
                    loopVars, faults,
                    events >>

Next ==
    \/ CaseL \/ CaseU \/ CasePAll \/ CasePList \/ CaseA \/ CaseABad \/ CaseD
    \/ CaseV \/ CaseH \/ CaseUnknown \/ ExtraArgs \/ GetoptDone
    \/ ParseBadOrder \/ ParseBadRange \/ ParseToken \/ ParseReturn
    \/ HidInit \/ HidInitFail
    \/ FindSkipProduct \/ FindSkipPath \/ FindOpenFail \/ FindOpen
    \/ FindReportFail \/ FindSerialMismatch \/ FindBadNports \/ FindAppend
    \/ FindTooMany \/ FindReturn
    \/ MainNoRelays \/ MainKeep \/ KeepStatus \/ KeepDone \/ MainAmbiguous
    \/ MainAction \/ PassSkip \/ PassBegin \/ PassesDone
    \/ SetOpenFail \/ SetOpen \/ SetWrite \/ SetWriteFail \/ PassStatus
    \/ GetOpenFail \/ GetOpen \/ GetRead \/ GetReadFail \/ StatusReturn
    \/ PassSleep \/ PassNext
    \/ Cleanup

Spec == Init /\ [][Next]_vars

(* ------------------------------------------------------------------ *)
(* What the run did: events by kind                                   *)
(* ------------------------------------------------------------------ *)

EvIdx(kind) == { j \in DOMAIN events : events[j].ev = kind }

\* the calls of set_port_state with the given state
SetIdx(state) == { j \in EvIdx("set") : events[j].state = state }

\* the calls of set_port_state that failed
FailedSetIdx == { j \in EvIdx("set") : events[j].rc < 0 }

\* status output: header lines and port lines
PrintIdx == EvIdx("header") \cup EvIdx("line")

\* the ports of the selected relay whose bit is set in the port mask
MaskedPorts == { p \in 1..relays[1].nports : Bit(opt_ports, p) }

\* the ports of the selected relay a status dump shows
ShownPorts == { p \in 1..relays[1].nports : opt_ports = 0 \/ Bit(opt_ports, p) }

\* main() has returned through cleanup
Returned == pc = "exit" /\ hid = "exited"

(* ------------------------------------------------------------------ *)
(* C1                                                                 *)
(* ------------------------------------------------------------------ *)

\* C1: in a CYCLE run the events come in the order: the OFF writes of the
\* masked ports, a status print, the sleep, the ON writes of the masked
\* ports, a second status print.  No ON write is issued before the last OFF
\* write, the first status print and the sleep are over; the sleep happens
\* at most once, and exactly once in a run that completes.
C1_CycleOrder ==
    opt_action = POWER_CYCLE =>
        /\ Cardinality(EvIdx("sleep")) <= 1
        /\ Cardinality(EvIdx("header")) <= 2
        /\ \A h \in EvIdx("header") : \A off \in SetIdx(POWER_OFF) : off < h
        /\ \A s \in EvIdx("sleep") :
              /\ \A off \in SetIdx(POWER_OFF) : off < s
              /\ \A p \in MaskedPorts :
                    \E off \in SetIdx(POWER_OFF) : events[off].port = p
              /\ Cardinality({ h \in EvIdx("header") : h < s }) = 1
              /\ \A p \in ShownPorts :
                    \E l \in EvIdx("line") : l < s /\ events[l].port = p
        /\ \A on \in SetIdx(POWER_ON) :
              /\ \A off \in SetIdx(POWER_OFF) : off < on
              /\ \E s \in EvIdx("sleep") : s < on /\ \A l \in PrintIdx : l < on => l < s
        /\ Returned /\ exit_status = <<0>> =>
              /\ Cardinality(EvIdx("sleep")) = 1
              /\ Cardinality(EvIdx("header")) = 2
              /\ \A p \in MaskedPorts :
                    \E on \in SetIdx(POWER_ON) : events[on].port = p
              /\ \E h \in EvIdx("header") :
                    /\ \A on \in SetIdx(POWER_ON) : on < h
                    /\ \A p \in ShownPorts :
                          \E l \in EvIdx("line") : h < l /\ events[l].port = p

\* a CYCLE run that wrote OFF and ON and returned 0
C1_Witness ==
    /\ Returned /\ exit_status = <<0>>
    /\ opt_action = POWER_CYCLE
    /\ Cardinality(SetIdx(POWER_OFF)) > 1
    /\ Cardinality(SetIdx(POWER_ON)) > 1

(* ------------------------------------------------------------------ *)
(* C2                                                                 *)
(* ------------------------------------------------------------------ *)

\* the serials main() printed to stderr, in order
SerialsListed == [ j \in 1..Cardinality(EvIdx("serial")) |->
    events[CHOOSE m \in EvIdx("serial") :
              Cardinality({ n \in EvIdx("serial") : n <= m }) = j].serial ]

\* C2: with action OFF, ON or CYCLE and more than one relay discovered, no
\* set_port_state call and no write is made, no relay changes, and main()
\* lists the serials of the discovered relays and returns 1.
C2_AmbiguousNoWrite ==
    opt_action # POWER_KEEP /\ relay_count > 1 =>
        /\ EvIdx("set") = {}
        /\ hw = hw_start
        /\ \A h \in DOMAIN handles : handles[h].by # "set_port_state"
        /\ pc \in {"cleanup", "exit"} /\ relay_count <= MAX_RELAYS /\ pc = "cleanup" => rc = 1
        /\ Returned =>
              /\ exit_status = <<1>>
              /\ SerialsListed = [ j \in 1..relay_count |-> relays[j].serial ]

\* a run with an action and two relays has returned
C2_Witness ==
    /\ Returned
    /\ opt_action # POWER_KEEP
    /\ relay_count > 1

(* ------------------------------------------------------------------ *)
(* C3                                                                 *)
(* ------------------------------------------------------------------ *)

\* C3: once a set_port_state call has failed, the process has ended with a
\* non-zero status, and nothing but the diagnostic follows the failed call:
\* no write, no later pass, no sleep, no status print, no retry.
C3_FirstFailureStops ==
    \A j \in FailedSetIdx :
        /\ pc = "exit"
        /\ exit_status # <<>> /\ exit_status[1] # 0
        /\ \A m \in DOMAIN events : m > j => events[m].ev = "diag"
        /\ Cardinality(FailedSetIdx) = 1

\* a CYCLE run whose OFF pass failed at its second port
C3_Witness ==
    /\ opt_action = POWER_CYCLE
    /\ \E j \in FailedSetIdx : events[j].state = POWER_OFF /\ events[j].port = 2
    /\ pc = "exit"

(* ------------------------------------------------------------------ *)
(* C4                                                                 *)
(* ------------------------------------------------------------------ *)

\* C4: no set_port_state call names a port whose bit is not set in the port
\* mask, and every such port of every relay is as it was when the run started.
C4_UnmaskedUntouched ==
    /\ \A j \in EvIdx("set") : Bit(opt_ports, events[j].port)
    /\ \A path \in Paths : \A p \in 1..MAX_RELAY_PORTS :
          ~Bit(opt_ports, p) => (Bit(hw[path], p) <=> Bit(hw_start[path], p))

\* a run with an action returned 0 and switched a port, and a port of the
\* relay is not in the mask
C4_Witness ==
    /\ Returned /\ exit_status = <<0>>
    /\ opt_action # POWER_KEEP
    /\ hw # hw_start
    /\ \E p \in 1..relays[1].nports : ~Bit(opt_ports, p)

(* ------------------------------------------------------------------ *)
(* C5                                                                 *)
(* ------------------------------------------------------------------ *)

\* C5 as stated: an OFF or ON pass calls set_port_state exactly once for every
\* port in 1..8 whose bit is set in the mask, and a masked port above the
\* relay's port count makes the run fatal.
C5_Original ==
    opt_action \in {POWER_OFF, POWER_ON} /\ relay_count = 1 /\ pc = "exit" =>
        /\ FailedSetIdx = {} =>
              \A p \in 1..MAX_RELAY_PORTS : Bit(opt_ports, p) =>
                  Cardinality({ j \in EvIdx("set") : events[j].port = p }) = 1
        /\ (\E p \in (relays[1].nports + 1)..MAX_RELAY_PORTS : Bit(opt_ports, p)) =>
              exit_status # <<0>>

\* C5 (amended): an OFF or ON pass calls set_port_state exactly once for every
\* port in 1..portCount whose bit is set in the mask, in ascending port order,
\* and for no other port; a masked port above portCount is never handed to
\* set_port_state and does not make the run fatal.
C5_PassPorts ==
    opt_action \in {POWER_OFF, POWER_ON} =>
        /\ \A j \in EvIdx("set") :
              /\ events[j].port \in MaskedPorts
              /\ events[j].state = opt_action
        /\ \A j, m \in EvIdx("set") : j < m => events[j].port < events[m].port
        /\ pc = "pass" =>
              \A p \in MaskedPorts : p < port =>
                  \E j \in EvIdx("set") : events[j].port = p
        /\ \A h \in EvIdx("header") : \A p \in MaskedPorts :
              \E j \in EvIdx("set") : j < h /\ events[j].port = p
        /\ pc = "exit" /\ relay_count = 1 /\ FailedSetIdx = {} => exit_status = <<0>>

\* an OFF or ON run returned 0 although the mask names a port the relay lacks
C5_Witness ==
    /\ Returned /\ exit_status = <<0>>
    /\ opt_action \in {POWER_OFF, POWER_ON}
    /\ EvIdx("set") # {}
    /\ \E p \in (relays[1].nports + 1)..MAX_RELAY_PORTS : Bit(opt_ports, p)

(* ------------------------------------------------------------------ *)
(* C6, C7                                                             *)
(* ------------------------------------------------------------------ *)

OpenedBy(by) == { h \in DOMAIN handles : handles[h].by = by }

\* C6: a handle find_relays opened is closed before the next device is
\* examined and before discovery returns or aborts: outside the examination of
\* one opened device, no handle opened by find_relays is open.
C6_DiscoveryClosesHandles ==
    pc # "find_opened" => OpenedBy("find_relays") = {}

\* get_port_state and set_port_state close the handle they open: a handle of
\* theirs is open only between their hid_open_path and their hid_close
OwnHandlesClosed ==
    /\ OpenedBy("get_port_state") # {} => pc = "status_read"
    /\ OpenedBy("set_port_state") # {} => pc = "pass_write"
    /\ Cardinality(OpenedBy("get_port_state") \cup OpenedBy("set_port_state")) <= 1

\* C7: get_port_state and set_port_state close the handle they open, so that
\* during status printing and the passes at most one handle is open at any
\* moment and none is open between two calls.
C7_ScopedHandles ==
    /\ OwnHandlesClosed
    /\ pc \in {"status_read", "pass_write"} => Len(handles) <= 1
    /\ pc \in {"keep", "status", "pass_k", "pass", "pass_end"} => handles = <<>>

(* ------------------------------------------------------------------ *)
(* C8                                                                 *)
(* ------------------------------------------------------------------ *)

\* C8: a port line is labelled ON only if get_port_state returned ON (1) and
\* OFF only if it returned OFF (0), so the line of a failed query (-1) carries
\* neither label; and a dump that is over has a line for every selected port,
\* failed queries or not.
C8_StatusLabels ==
    /\ \A l \in EvIdx("line") :
          /\ events[l].label = "ON" => events[l].state = 1
          /\ events[l].label = "OFF" => events[l].state = 0
    /\ pc = "pass_end" =>
          \A p \in ShownPorts : \E l \in EvIdx("line") : events[l].port = p

(* ------------------------------------------------------------------ *)
(* C9, C10: the port-list grammar the parser is specified against     *)
(* ------------------------------------------------------------------ *)

RECURSIVE SplitCommas(_)
\* the comma-separated tokens of a port list
SplitCommas(s) ==
    IF strchr(s, ",") = 0 THEN <<s>>
    ELSE <<Take(s, strchr(s, ",") - 1)>> \o SplitCommas(Drop(s, strchr(s, ",")))

IsNumber(t) == t # <<>> /\ \A j \in 1..Len(t) : IsDigit(t[j])

\* a decimal integer N or a range N-M
IsNumeric(t) ==
    \/ IsNumber(t)
    \/ \E d \in 1..Len(t) : t[d] = "-" /\ IsNumber(Take(t, d - 1)) /\ IsNumber(Drop(t, d))

RangeStart(t) ==
    IF strchr(t, "-") = 0 THEN DigitsValue(t, 10, 0)
    ELSE DigitsValue(Take(t, strchr(t, "-") - 1), 10, 0)

RangeEnd(t) ==
    IF strchr(t, "-") = 0 THEN DigitsValue(t, 10, 0)
    ELSE DigitsValue(Drop(t, strchr(t, "-")), 10, 0)

\* a token the grammar accepts: numeric and no longer than the parser's
\* buffer holds, start <= end, both within 1..8
GoodToken(t) ==
    /\ IsNumeric(t)
    /\ Len(t) <= TokenBufLen
    /\ RangeStart(t) <= RangeEnd(t)
    /\ 1 <= RangeStart(t) /\ RangeEnd(t) <= MAX_RELAY_PORTS

RECURSIVE TrimLeft(_)
TrimLeft(t) == IF t # <<>> /\ t[1] = " " THEN TrimLeft(Tail(t)) ELSE t

RECURSIVE TrimRight(_)
TrimRight(t) ==
    IF t # <<>> /\ t[Len(t)] = " " THEN TrimRight(SubSeq(t, 1, Len(t) - 1)) ELSE t

Trim(t) == TrimRight(TrimLeft(t))

RECURSIVE ListMask(_, _)
\* the bits of the listed ports of the non-empty tokens, from token n on
ListMask(toks, n) ==
    IF n > Len(toks) THEN 0
    ELSE IF Trim(toks[n]) = <<>> THEN ListMask(toks, n + 1)
    ELSE OrRange(ListMask(toks, n + 1), RangeStart(Trim(toks[n])), RangeEnd(Trim(toks[n])))

ParseOver == pc \in {"getopt", "exit"}

\* the port list has neither white space nor an empty token
PlainList ==
    /\ \A j \in 1..Len(portlist) : portlist[j] # " "
    /\ \A n \in 1..Len(SplitCommas(portlist)) : SplitCommas(portlist)[n] # <<>>

\* C9: on a port list without white space and empty tokens, the parser fails
\* (exit 1) if some token has start > end, names a port outside 1..8 or is not
\* numeric; otherwise it returns exactly the mask of the listed ports.
C9_ParseExact ==
    ParseOver /\ PlainList =>
        LET toks == SplitCommas(portlist)
        IN  IF \E n \in 1..Len(toks) : ~GoodToken(toks[n])
            THEN pc = "exit" /\ exit_status = <<1>>
            ELSE pc = "getopt" /\ opt_ports = ListMask(toks, 1)

\* C10: a port list whose tokens are empty or valid tokens with white space
\* around them is accepted, and the result is the OR of the bits of its
\* non-empty tokens.
C10_EmptyTokensAccepted ==
    LET toks == SplitCommas(portlist)
    IN  ParseOver /\ (\A n \in 1..Len(toks) : Trim(toks[n]) = <<>> \/ GoodToken(Trim(toks[n])))
            => pc = "getopt" /\ opt_ports = ListMask(toks, 1)

\* the part of C10 about white space alone: with no empty token, a list of
\* valid tokens with white space around them, each fitting buf, is accepted
WhitespaceAccepted ==
    LET toks == SplitCommas(portlist)
    IN  ParseOver /\ (\A n \in 1..Len(toks) :
                        GoodToken(Trim(toks[n])) /\ Len(toks[n]) <= TokenBufLen)
            => pc = "getopt" /\ opt_ports = ListMask(toks, 1)

(* ------------------------------------------------------------------ *)
(* C11                                                                *)
(* ------------------------------------------------------------------ *)

\* the ports a valid token names
TokenPorts(t) == RangeStart(t)..RangeEnd(t)

\* the set of ports a port list names
PortsNamed(pl) == UNION { TokenPorts(SplitCommas(pl)[n]) : n \in 1..Len(SplitCommas(pl)) }

RECURSIVE SetMask(_)
\* the mask of a set of ports
SetMask(S) ==
    IF S = {} THEN 0
    ELSE LET p == CHOOSE q \in S : TRUE IN Pow2(p - 1) + SetMask(S \ {p})

\* a comma-separated list of integers and ranges within 1..8
ValidList(pl) == \A n \in 1..Len(SplitCommas(pl)) : GoodToken(SplitCommas(pl)[n])

\* C11: on a valid port list the parser returns the mask of the set of ports
\* the list names, so that two valid lists naming the same set (tokens
\* reordered or repeated, a range replaced by its members or by overlapping
\* ranges) give the same mask.
C11_MaskOfPortSet ==
    ParseOver /\ ValidList(portlist) =>
        pc = "getopt" /\ opt_ports = SetMask(PortsNamed(portlist))

\* "3-4,1,4-5" has been parsed: overlapping ranges, not in ascending order
C11_Witness ==
    /\ pc = "getopt"
    /\ portlist = Join(<< <<"3", "-", "4">>, <<"1">>, <<"4", "-", "5">> >>)
    /\ opt_ports = SetMask({1, 3, 4, 5})

(* ------------------------------------------------------------------ *)
(* C12                                                                *)
(* ------------------------------------------------------------------ *)

\* a product string that is "USBRelay" followed by a decimal digit
RelayProduct(dev) ==
    /\ ~dev.product_null
    /\ Len(dev.product_string) > PrefixLen
    /\ Take(dev.product_string, PrefixLen) = ProductRelay(<<>>)
    /\ IsDigit(dev.product_string[PrefixLen + 1])

\* the paths of the devices that carry such a product string
RelayPaths == { d.path : d \in { e \in DeviceKinds : RelayProduct(e) } }

\* C12: find_relays opens a device, and lists it, only if its product string
\* is the 8 characters "USBRelay" followed by a decimal port count: a device
\* whose product string differs from "USBRelay" within its first 8 characters
\* is never opened and never in relays[].
C12_ExactProductPrefix ==
    /\ pc = "find_opened" => RelayProduct(cur_dev)
    /\ \A h \in OpenedBy("find_relays") : handles[h].path \in RelayPaths
    /\ \A j \in DOMAIN relays : relays[j].path \in RelayPaths

(* ------------------------------------------------------------------ *)
(* C13                                                                *)
(* ------------------------------------------------------------------ *)

\* C13: every entry of relays[] has nports within 1..MAX_RELAY_PORTS (a device
\* advertising no port is rejected, one advertising more than 8 is rejected or
\* stored with 8), and no status line and no set_port_state call names a port
\* above MAX_RELAY_PORTS.
C13_PortCountBounded ==
    /\ \A j \in DOMAIN relays : relays[j].nports \in 1..MAX_RELAY_PORTS
    /\ \A e \in EvIdx("line") \cup EvIdx("set") : events[e].port <= MAX_RELAY_PORTS

\* the parts of C13 that hold: a listed relay has a positive nports, and no
\* port above MAX_RELAY_PORTS is queried or written
PositivePortCount ==
    /\ \A j \in DOMAIN relays : relays[j].nports >= 1
    /\ \A e \in EvIdx("line") \cup EvIdx("set") : events[e].port <= MAX_RELAY_PORTS

(* ------------------------------------------------------------------ *)
(* C14                                                                *)
(* ------------------------------------------------------------------ *)

\* the opened device passes the filters that follow hid_open_path
PassesFilters ==
    /\ pc = "find_opened"
    /\ cur_dev.report_ok /\ ~SerialFiltered(cur_dev) /\ NPorts(cur_dev) > 0

TooManyIdx == { j \in EvIdx("diag") : events[j].msg = "Too many relays" }

\* C14: relays[] never holds more than MAX_RELAYS entries; a device that
\* passes all filters when relays[] is full is not dropped: the step that
\* handles it prints the diagnostic and ends the process with a non-zero
\* status, and no status query and no port write is made afterwards.
C14_TooManyIsFatal ==
    /\ [](/\ Len(relays) <= MAX_RELAYS
          /\ \A j \in TooManyIdx :
                /\ pc = "exit" /\ exit_status # <<>> /\ exit_status[1] # 0
                /\ j = Len(events)
                /\ EvIdx("set") \cup PrintIdx = {}
                /\ OpenedBy("get_port_state") \cup OpenedBy("set_port_state") = {})
    /\ [][PassesFilters /\ Len(relays) >= MAX_RELAYS =>
              /\ pc' = "exit" /\ exit_status' # <<>> /\ exit_status'[1] # 0
              /\ events' = Append(events, [ev |-> "diag", msg |-> "Too many relays"])]_vars

\* the 65th relay has ended the run
C14_Witness ==
    /\ pc = "exit"
    /\ TooManyIdx # {}
    /\ Len(relays) = MAX_RELAYS
    /\ cur = MAX_RELAYS + 1

(* ------------------------------------------------------------------ *)
(* C15                                                                *)
(* ------------------------------------------------------------------ *)

\* the relays print_relay_status was called for, in order: the paths of the
\* header lines
HeaderPaths == [ j \in 1..Cardinality(EvIdx("header")) |->
    events[CHOOSE m \in EvIdx("header") :
              Cardinality({ n \in EvIdx("header") : n <= m }) = j].path ]

\* C15: with action KEEP no write is issued and no relay changes;
\* print_relay_status is called for the relays of relays[] in list order, once
\* each, however many there are, and a run that found a relay and returned
\* has called it for every relay and ends with exit status 0.
C15_KeepPrintsAll ==
    opt_action = POWER_KEEP =>
        /\ EvIdx("set") = {}
        /\ OpenedBy("set_port_state") = {}
        /\ hw = hw_start
        /\ Len(HeaderPaths) <= relay_count
        /\ \A j \in 1..Len(HeaderPaths) : HeaderPaths[j] = relays[j].path
        /\ pc = "keep" => Len(HeaderPaths) = i - 1
        /\ Returned /\ relay_count >= 1 =>
              /\ Len(HeaderPaths) = relay_count
              /\ exit_status = <<0>>
              /\ \A j \in EvIdx("diag") : events[j].msg # "More than 1 relay found"

\* a KEEP run over two relays has returned, a status read having failed
C15_Witness ==
    /\ Returned
    /\ opt_action = POWER_KEEP
    /\ relay_count > 1
    /\ \E l \in EvIdx("line") : events[l].state = -1

(* ------------------------------------------------------------------ *)
(* C16                                                                *)
(* ------------------------------------------------------------------ *)

Reported(msg) == \E j \in EvIdx("diag") : events[j].msg = msg

\* a query-only run that found a relay
QueryFound == Returned /\ opt_action = POWER_KEEP /\ relay_count >= 1

\* an action whose passes were all made, each followed by its status dump,
\* without a failed write
ActionDone ==
    /\ Returned /\ opt_action # POWER_KEEP /\ relay_count = 1
    /\ FailedSetIdx = {}
    /\ Cardinality(EvIdx("header")) = IF opt_action = POWER_CYCLE THEN 2 ELSE 1

\* the failures the exit status 1 is specified for
ListedFailure ==
    \/ Reported("No compatible relays detected")
    \/ Reported("More than 1 relay found")
    \/ Reported("Bad port spec")
    \/ Reported("Invalid power action")
    \/ FailedSetIdx # {}
    \/ Reported("Invalid command line syntax")
    \/ EvIdx("usage") # {}

LinePorts == { events[l].port : l \in EvIdx("line") }

\* C17: print_relay_status on a relay of n ports prints one line for each
\* port in 1..n whose mask bit is set, or for each port in 1..n when the mask
\* is 0, in ascending order, and no line for another port; with mask 0 it
\* prints n lines; get_port_state is called once for each line.
C17_StatusLines ==
    /\ LinePorts \subseteq ShownPorts
    /\ \A l, m \in EvIdx("line") : l < m => events[l].port < events[m].port
    /\ pc \in {"status", "status_read"} =>
          \A p \in ShownPorts : p < st_port <=> p \in LinePorts
    /\ pc = "status_read" =>
          /\ st_port \in ShownPorts
          /\ Cardinality(OpenedBy("get_port_state")) = 1
    /\ pc = "status" => OpenedBy("get_port_state") = {}
    /\ pc = "pass_end" =>
          /\ LinePorts = ShownPorts
          /\ Cardinality(EvIdx("line")) = Cardinality(ShownPorts)
          /\ opt_ports = 0 => Cardinality(EvIdx("line")) = relays[1].nports

\* the dump of a relay of 4 ports with mask 0 is over: 4 lines
C17_Witness ==
    /\ pc = "pass_end"
    /\ opt_ports = 0
    /\ relays[1].nports = 4
    /\ Cardinality(EvIdx("line")) = 4

\* the dump of a relay of 4 ports with a mask naming ports 1 and 3 is over
C17_WitnessMasked ==
    /\ pc = "pass_end"
    /\ opt_ports = 5
    /\ relays[1].nports = 4
    /\ LinePorts = {1, 3}

(* ------------------------------------------------------------------ *)
(* C18                                                                *)
(* ------------------------------------------------------------------ *)

\* the options getopt_long has rejected
RejectedOptions ==
    { events[j].opt : j \in { m \in EvIdx("diag") : events[m].msg = "invalid option" } }

\* C18: -u PATH is accepted as --path PATH is: getopt_long never rejects -u
\* as an invalid option, so that a run given -u goes on to discovery with the
\* path filter set and does not end in a command-line syntax error.
C18_ShortPathFlag == "u" \notin RejectedOptions

\* what does hold: the path filter is set by --path, and then find_relays
\* opens and lists only devices at that path
LongPathFilters ==
    opt_path # <<>> =>
        /\ opt_path = Path1
        /\ \A h \in OpenedBy("find_relays") : StrCaseEq(handles[h].path, opt_path)
        /\ \A j \in DOMAIN relays : StrCaseEq(relays[j].path, opt_path)

(* ------------------------------------------------------------------ *)
(* C19                                                                *)
(* ------------------------------------------------------------------ *)

\* C19: no two entries of relays[] have the same path, also when
\* hid_enumerate reports a path more than once, so that a relay reported
\* twice is one relay and an action on it is not refused as ambiguous.
C19_UniquePaths ==
    /\ \A j, m \in DOMAIN relays : j # m => relays[j].path # relays[m].path
    /\ Reported("More than 1 relay found") =>
          Cardinality({ relays[j].path : j \in DOMAIN relays }) > 1

(* ------------------------------------------------------------------ *)
(* C20                                                                *)
(* ------------------------------------------------------------------ *)

\* C20: once hid_init has succeeded, the process does not end before
\* hid_exit has been called.
C20_ExitAfterShutdown ==
    pc = "exit" /\ hid # "down" => hid = "exited"

\* what does hold: main() calls hid_exit whenever it leaves through cleanup,
\* that is after no relays found, a query-only run, the refusal of an
\* ambiguous action and a completed action
CleanupShutsDown ==
    /\ pc = "exit" /\ hid = "up" =>
          FailedSetIdx # {} \/ Reported("Too many relays")
    /\ pc = "exit" /\ (Reported("No compatible relays detected")
                         \/ Reported("More than 1 relay found")
                         \/ QueryFound \/ ActionDone) => hid = "exited"

====
